---- MODULE Spec2Model ----
(***************************************************************************)
(* CivicIQ complaint intake: the submission pipeline, voting, resolution,  *)
(* the priority scorer, the similarity engine and the in-memory rate       *)
(* limiter of backend/.                                                    *)
(*                                                                         *)
(* Numbers.  Priority scores are Python floats rounded to two decimals;    *)
(* they are modelled as integers counting hundredths (10.0 is 1000).       *)
(* Time is counted in ticks, TicksPerHour ticks to the hour.  A cosine     *)
(* similarity is kept exact as a pair [n, m] standing for n / sqrt(m).     *)
(***************************************************************************)
EXTENDS Integers, Sequences, FiniteSets, Bags, TLC

(* ------------------------------ bounds --------------------------------- *)
MaxRows == 3
MaxClock == 1
MaxCount == 2
TicksPerHour == 2
MaxCorpus == 3
MaxChain == 3
MaxReports == 4

(* ------------------------- program constants --------------------------- *)
WINDOW_HOURS == 1
rate_limit_complaints == 5
LOW_WEIGHT == 100
MEDIUM_WEIGHT == 500
HIGH_WEIGHT == 1000
DEFAULT_WEIGHT == 100
VOTE_MULTIPLIER == 200
DUPLICATE_MULTIPLIER == 150
TIME_DECAY_PER_DAY == 50
TIME_DECAY_CAP == 2000
SUMMARY_LIMIT == 200

TicksPerDay == 24 * TicksPerHour
WindowTicks == WINDOW_HOURS * TicksPerHour

\* 0.85 as n / sqrt(m): 17 / sqrt(400)
SIMILARITY_THRESHOLD == [n |-> 17, m |-> 400]

ComplaintCategory ==
    {"Road & Infrastructure", "Water Supply", "Sanitation", "Electricity",
     "Public Safety", "Parks & Green Spaces", "Noise Pollution", "Other"}

SeverityLevel == {"Low", "Medium", "High"}

ComplaintStatus == {"pending", "in_progress", "resolved"}

SEVERITY_WEIGHTS ==
    [s \in SeverityLevel |->
        CASE s = "Low" -> LOW_WEIGHT
          [] s = "Medium" -> MEDIUM_WEIGHT
          [] s = "High" -> HIGH_WEIGHT]

Users == {"u1", "u2"}

\* Python's None
None == 0
\* a key a dict does not hold; where the value would be a text or a list
Missing == "<missing>"
MissingList == <<Missing>>

(* ------------------------------ state ---------------------------------- *)
VARIABLES
    clock,              \* wall-clock time, in ticks
    complaints,         \* table complaints: row i has id i
    votes,              \* table votes: a bag of rows
    complaint_vectors,  \* table complaint_vectors: rows in insertion order
    resolution_logs,    \* table resolution_logs: rows in insertion order
    submission_log,     \* _submission_log: user id -> list of timestamps
    admitted,           \* history: user id -> every timestamp the limiter admitted
    response,           \* the latest request and the response it got
    calls               \* worker -> the request it is serving, step by step

vars == <<clock, complaints, votes, complaint_vectors, resolution_logs,
          submission_log, admitted, response, calls>>

limiter == <<submission_log, admitted>>

store == <<complaints, votes, complaint_vectors, resolution_logs>>

\* the workers serving requests side by side, and a worker serving none
Procs == {"p1", "p2"}

Idle ==
    [op |-> "none", pc |-> "idle", status |-> 0, target |-> None, user |-> "",
     sub |-> None, row |-> None, id |-> None, read |-> None,
     n_votes |-> 0, n_dups |-> 0, vote_count |-> 0]

(* ----------------------------- helpers --------------------------------- *)
Min(a, b) == IF a <= b THEN a ELSE b

\* round(x, 2) of the exact value n / d hundredths (d > 0): to nearest, ties
\* to even, as Python rounds a float whose value is exactly representable
RoundHalfEven(n, d) ==
    LET q == n \div d
        r == n % d
    IN  IF 2 * r < d THEN q
        ELSE IF 2 * r > d THEN q + 1
        ELSE IF q % 2 = 0 THEN q ELSE q + 1

\* text[:n]
Slice(text, n) == SubSeq(text, 1, Min(Len(text), n))

RECURSIVE SumSeq(_)
SumSeq(s) == IF s = <<>> THEN 0 ELSE Head(s) + SumSeq(Tail(s))

(* --------------------------- ai/priority.py ---------------------------- *)
\* SEVERITY_WEIGHTS.get(severity, 1.0)
severity_weight(severity) ==
    IF severity \in DOMAIN SEVERITY_WEIGHTS
    THEN SEVERITY_WEIGHTS[severity] ELSE DEFAULT_WEIGHT

\* mutant: the decay is not capped
time_decay_uncapped(age, status) ==
    IF status # "resolved" THEN age * TIME_DECAY_PER_DAY ELSE 0

\* time_decay in hundredths, times TicksPerDay (kept exact until rounding);
\* age is now - created_at in ticks
time_decay_scaled(age, status) ==
    IF status # "resolved"
    THEN Min(age * TIME_DECAY_PER_DAY, TIME_DECAY_CAP * TicksPerDay)
    ELSE 0

\* compute_priority_score evaluated at time now; the result is in hundredths
compute_priority_score(severity, vote_count, duplicate_count, created_at, status, now) ==
    LET vote_score == vote_count * VOTE_MULTIPLIER
        dup_score == duplicate_count * DUPLICATE_MULTIPLIER
        time_decay == time_decay_scaled(now - created_at, status)
        total == (severity_weight(severity) + vote_score + dup_score) * TicksPerDay
                 + time_decay
    IN  RoundHalfEven(total, TicksPerDay)

(* -------------------------- ai/embeddings.py --------------------------- *)
\* A JSON text is a sequence of tokens [sym, num]: "[", "]", "," or a number.
Sym(c) == [sym |-> c, num |-> 0]
Num(x) == [sym |-> "num", num |-> x]

\* json.dumps of a list of numbers
json_dumps(vec) ==
    <<Sym("[")>>
    \o [i \in 1 .. 2 * Len(vec) - (IF Len(vec) > 0 THEN 1 ELSE 0) |->
          IF i % 2 = 1 THEN Num(vec[(i + 1) \div 2]) ELSE Sym(",")]
    \o <<Sym("]")>>

\* json.loads of a text: [ok |-> TRUE, val |-> the list] or, when the text
\* is no JSON list, ok = FALSE (json.JSONDecodeError)
json_loads(text) ==
    LET n == Len(text)
        inner == IF n >= 2 THEN SubSeq(text, 2, n - 1) ELSE <<>>
        k == Len(inner)
        wellFormed ==
            /\ n >= 2
            /\ text[1] = Sym("[") /\ text[n] = Sym("]")
            /\ (k = 0 \/ k % 2 = 1)
            /\ \A i \in 1 .. k :
                  IF i % 2 = 1 THEN inner[i].sym = "num" ELSE inner[i] = Sym(",")
    IN  IF wellFormed
        THEN [ok |-> TRUE, val |-> [i \in 1 .. (k + 1) \div 2 |-> inner[2 * i - 1].num]]
        ELSE [ok |-> FALSE, val |-> <<>>]

\* zip(vec_a, vec_b) stops at the shorter vector
Dot(vec_a, vec_b) ==
    SumSeq([i \in 1 .. Min(Len(vec_a), Len(vec_b)) |-> vec_a[i] * vec_b[i]])

\* cosine_similarity as n / sqrt(m); 0.0 is [n |-> 0, m |-> 1]
cosine_similarity(vec_a, vec_b) ==
    LET dot == Dot(vec_a, vec_b)
        mag_a_sq == Dot(vec_a, vec_a)
        mag_b_sq == Dot(vec_b, vec_b)
    IN  IF mag_a_sq = 0 \/ mag_b_sq = 0
        THEN [n |-> 0, m |-> 1]
        ELSE [n |-> dot, m |-> mag_a_sq * mag_b_sq]

\* s > t for similarities s = s.n / sqrt(s.m), t = t.n / sqrt(t.m)
ScoreGt(s, t) ==
    CASE s.n >= 0 /\ t.n >= 0 -> s.n * s.n * t.m > t.n * t.n * s.m
      [] s.n >= 0 /\ t.n < 0 -> TRUE
      [] s.n < 0 /\ t.n >= 0 -> FALSE
      [] OTHER -> s.n * s.n * t.m < t.n * t.n * s.m

\* A stored embedding is [kind, val]: kind "str" (val a JSON text), "list"
\* (val a list of numbers) or "null" (the column is empty, val <<>>).
\* The embedding find_duplicate compares against: json.loads of a string,
\* the value itself otherwise; ok = FALSE when decoding raises
decode_embedding(raw) ==
    IF raw.kind = "str" THEN json_loads(raw.val)
    ELSE [ok |-> TRUE, val |-> raw.val]

\* mutant: the running best is replaced on an equal score as well
scan_item_last_wins(best, new_embedding, item) ==
    LET existing == decode_embedding(item.embedding)
    IN  IF ~existing.ok \/ existing.val = <<>>
        THEN best
        ELSE LET score == cosine_similarity(new_embedding, existing.val)
             IN  IF ~ScoreGt(best.similarity, score)
                 THEN [complaint_id |-> item.complaint_id, similarity |-> score]
                 ELSE best

\* mutant: an entry that raises or is empty discards the best so far
scan_item_aborting(best, new_embedding, item) ==
    LET existing == decode_embedding(item.embedding)
    IN  IF ~existing.ok \/ existing.val = <<>>
        THEN [complaint_id |-> None, similarity |-> [n |-> 0, m |-> 1]]
        ELSE LET score == cosine_similarity(new_embedding, existing.val)
             IN  IF ScoreGt(score, best.similarity)
                 THEN [complaint_id |-> item.complaint_id, similarity |-> score]
                 ELSE best

\* one pass of the loop body of find_duplicate over item, from the running
\* best [complaint_id, similarity]; an entry that raises or is empty is skipped
scan_item(best, new_embedding, item) ==
    LET existing == decode_embedding(item.embedding)
    IN  IF ~existing.ok \/ existing.val = <<>>
        THEN best
        ELSE LET score == cosine_similarity(new_embedding, existing.val)
             IN  IF ScoreGt(score, best.similarity)
                 THEN [complaint_id |-> item.complaint_id, similarity |-> score]
                 ELSE best

RECURSIVE scan(_, _, _)
scan(best, new_embedding, stored_vectors) ==
    IF stored_vectors = <<>> THEN best
    ELSE scan(scan_item(best, new_embedding, Head(stored_vectors)),
              new_embedding, Tail(stored_vectors))

\* best_match = None, best_score = 0.0
NoMatch == [complaint_id |-> None, similarity |-> [n |-> 0, m |-> 1]]

\* mutant: a best score equal to the threshold counts as a match
find_duplicate_inclusive(new_embedding, stored_vectors) ==
    LET best == scan(NoMatch, new_embedding, stored_vectors)
    IN  IF ~ScoreGt(SIMILARITY_THRESHOLD, best.similarity) /\ best.complaint_id # None
        THEN best
        ELSE NoMatch

\* find_duplicate: [complaint_id, similarity] of the best entry, or NoMatch
\* (complaint_id = None) where the code returns None
find_duplicate(new_embedding, stored_vectors) ==
    LET best == scan(NoMatch, new_embedding, stored_vectors)
    IN  IF ScoreGt(best.similarity, SIMILARITY_THRESHOLD) /\ best.complaint_id # None
        THEN best
        ELSE NoMatch

(* ------------------------- the data store ------------------------------ *)
\* mutant: a duplicate of a duplicate is rolled up into the count
count_duplicates_transitive(cs, complaint_id) ==
    Cardinality({i \in DOMAIN cs :
                    \/ cs[i].duplicate_of = complaint_id
                    \/ /\ cs[i].duplicate_of \in DOMAIN cs
                       /\ cs[cs[i].duplicate_of].duplicate_of = complaint_id})

\* select count from complaints where duplicate_of = complaint_id
count_duplicates(cs, complaint_id) ==
    Cardinality({i \in DOMAIN cs : cs[i].duplicate_of = complaint_id})

RECURSIVE SumCopies(_, _)
SumCopies(rows, bag) ==
    IF rows = {} THEN 0
    ELSE LET r == CHOOSE x \in rows : TRUE
         IN  CopiesIn(r, bag) + SumCopies(rows \ {r}, bag)

\* select count from votes where complaint_id = complaint_id
count_votes(vs, complaint_id) ==
    SumCopies({r \in BagToSet(vs) : r.complaint_id = complaint_id}, vs)

\* mutant: the already-voted check finds nothing
existing_votes_unchecked(vs, complaint_id, user_id) == 0

\* select from votes where complaint_id = .. and user_id = ..: rows found
existing_votes(vs, complaint_id, user_id) ==
    CopiesIn([complaint_id |-> complaint_id, user_id |-> user_id], vs)

(* ------------------- services/complaint_service.py --------------------- *)
\* mutant: an event-sourced increment instead of a recomputation
refresh_priority_incremental(cs, vs, complaint_id, now, failed) ==
    IF failed \/ complaint_id \notin DOMAIN cs THEN cs
    ELSE [cs EXCEPT ![complaint_id].priority_score = @ + VOTE_MULTIPLIER]

\* mutant: the update writes the status back as well
refresh_priority_reopens(cs, vs, complaint_id, now, failed) ==
    IF failed \/ complaint_id \notin DOMAIN cs THEN cs
    ELSE [cs EXCEPT ![complaint_id].status = "pending"]

\* mutant: the refresh writes nothing
refresh_priority_skipped(cs, vs, complaint_id, now, failed) == cs

\* _refresh_priority: the complaints table after it ran at time now; a store
\* call that raises (failed) is swallowed and leaves the table as it was
refresh_priority(cs, vs, complaint_id, now, failed) ==
    IF failed \/ complaint_id \notin DOMAIN cs THEN cs
    ELSE LET c == cs[complaint_id]
             new_score == compute_priority_score(
                              c.severity, count_votes(vs, complaint_id),
                              count_duplicates(cs, complaint_id),
                              c.created_at, c.status, now)
         IN  [cs EXCEPT ![complaint_id].priority_score = new_score]

\* dict.get(key, default) on the classifier's result
dict_get(value, default) == IF value = Missing THEN default ELSE value
dict_get_list(value, default) == IF value = MissingList THEN default ELSE value

\* mutant: the fallback summary is the whole description
fallback_result_unsliced(data) ==
    [kind |-> "dict", category |-> data.category, severity |-> data.severity,
     summary |-> data.description, keywords |-> <<>>]

\* the defaults create_complaint uses when analyze_complaint raises
fallback_result(data) ==
    [kind |-> "dict", category |-> data.category, severity |-> data.severity,
     summary |-> Slice(data.description, SUMMARY_LIMIT), keywords |-> <<>>]

\* mutant: the score is computed from the declared severity and no duplicates
complaint_row_declared(user_id, data, ai, emb, cs, vectors, now) ==
    LET ai_result == IF ai.kind = "raise" THEN fallback_result(data) ELSE ai
        dup == IF emb.ok /\ emb.values # <<>>
               THEN find_duplicate(emb.values, vectors) ELSE NoMatch
    IN  [user_id |-> user_id,
         category |-> dict_get(ai_result.category, data.category),
         severity |-> dict_get(ai_result.severity, data.severity),
         priority_score |-> compute_priority_score(data.severity, 0, 0, now,
                                                   "pending", now),
         status |-> "pending",
         ai_summary |-> dict_get_list(ai_result.summary, None),
         keywords |-> dict_get_list(ai_result.keywords, <<>>),
         is_duplicate |-> dup.complaint_id # None,
         duplicate_of |-> dup.complaint_id,
         created_at |-> now]

\* mutant: the parent is recorded but the row is not flagged
complaint_row_unflagged(user_id, data, ai, emb, cs, vectors, now) ==
    LET ai_result == IF ai.kind = "raise" THEN fallback_result(data) ELSE ai
        effective_severity == dict_get(ai_result.severity, data.severity)
        dup == IF emb.ok /\ emb.values # <<>>
               THEN find_duplicate(emb.values, vectors) ELSE NoMatch
        duplicate_count == IF dup.complaint_id # None
                           THEN count_duplicates(cs, dup.complaint_id) ELSE 0
    IN  [user_id |-> user_id,
         category |-> dict_get(ai_result.category, data.category),
         severity |-> effective_severity,
         priority_score |-> compute_priority_score(effective_severity, 0,
                                                   duplicate_count, now,
                                                   "pending", now),
         status |-> "pending",
         ai_summary |-> dict_get_list(ai_result.summary, None),
         keywords |-> dict_get_list(ai_result.keywords, <<>>),
         is_duplicate |-> FALSE,
         duplicate_of |-> dup.complaint_id,
         created_at |-> now]

\* mutant: the corpus searched already holds the new complaint's embedding
complaint_row_self_match(user_id, data, ai, emb, cs, vectors, now) ==
    LET ai_result == IF ai.kind = "raise" THEN fallback_result(data) ELSE ai
        effective_severity == dict_get(ai_result.severity, data.severity)
        own == [complaint_id |-> Len(cs) + 1,
                embedding |-> [kind |-> "str", val |-> json_dumps(emb.values)]]
        dup == IF emb.ok /\ emb.values # <<>>
               THEN find_duplicate(emb.values, Append(vectors, own)) ELSE NoMatch
        is_duplicate == dup.complaint_id # None
        duplicate_count == IF is_duplicate
                           THEN count_duplicates(cs, dup.complaint_id) ELSE 0
    IN  [user_id |-> user_id,
         category |-> dict_get(ai_result.category, data.category),
         severity |-> effective_severity,
         priority_score |-> compute_priority_score(effective_severity, 0,
                                                   duplicate_count, now,
                                                   "pending", now),
         status |-> "pending",
         ai_summary |-> dict_get_list(ai_result.summary, None),
         keywords |-> dict_get_list(ai_result.keywords, <<>>),
         is_duplicate |-> is_duplicate,
         duplicate_of |-> dup.complaint_id,
         created_at |-> now]

\* Steps 1-4 of create_complaint: the row to insert, from the request data,
\* the classifier outcome ai, the embedding emb, and the stored tables
complaint_row(user_id, data, ai, emb, cs, vectors, now) ==
    LET ai_result == IF ai.kind = "raise" THEN fallback_result(data) ELSE ai
        effective_category == dict_get(ai_result.category, data.category)
        effective_severity == dict_get(ai_result.severity, data.severity)
        dup == IF emb.ok /\ emb.values # <<>>
               THEN find_duplicate(emb.values, vectors) ELSE NoMatch
        is_duplicate == dup.complaint_id # None
        duplicate_count == IF is_duplicate
                           THEN count_duplicates(cs, dup.complaint_id) ELSE 0
        priority == compute_priority_score(effective_severity, 0,
                                           duplicate_count, now, "pending", now)
    IN  [user_id |-> user_id,
         category |-> effective_category,
         severity |-> effective_severity,
         priority_score |-> priority,
         status |-> "pending",
         ai_summary |-> dict_get_list(ai_result.summary, None),
         keywords |-> dict_get_list(ai_result.keywords, <<>>),
         is_duplicate |-> is_duplicate,
         duplicate_of |-> dup.complaint_id,
         created_at |-> now]

(* ---------------------- utils/rate_limiter.py -------------------------- *)
\* the timestamps of log inside the window ending at now
prune(log, now) == SelectSeq(log, LAMBDA t : t > now - WindowTicks)

\* mutant: the cap is compared with > instead of >=
limit_reached_late(pruned) == Len(pruned) > rate_limit_complaints

\* whether check_complaint_rate_limit raises 429 on the pruned log
limit_reached(pruned) == Len(pruned) >= rate_limit_complaints

(* ----------------------------- requests -------------------------------- *)
\* response: the latest request (op, complaint id) and what it got: the HTTP
\* status, the vote count returned, and the store call that failed in it
NoResponse ==
    [op |-> "none", status |-> 0, id |-> 0, failed |-> "none", vote_count |-> 0]

Reply(op, status, id, failed, vote_count) ==
    [op |-> op, status |-> status, id |-> id, failed |-> failed,
     vote_count |-> vote_count]

Init ==
    /\ clock = 0
    /\ complaints = <<>>
    /\ votes = EmptyBag
    /\ complaint_vectors = <<>>
    /\ resolution_logs = <<>>
    /\ submission_log = [u \in Users |-> <<>>]
    /\ admitted = [u \in Users |-> <<>>]
    /\ response = NoResponse
    /\ calls = [p \in Procs |-> Idle]

\* mutant: the embedding record is written whether or not there is an
\* embedding
create_complaint_unguarded(user, data, ai, emb, fault) ==
    LET embedded == emb.ok /\ emb.values # <<>>
        row == complaint_row(user, data, ai, emb, complaints,
                             complaint_vectors, clock)
        id == Len(complaints) + 1
        inserted == Append(complaints, row)
        refreshes == row.duplicate_of # None
    IN  /\ UNCHANGED <<clock, votes, resolution_logs>>
        /\ IF ai.kind = "nondict"
           THEN \* ai_result.get raises AttributeError
                /\ response' = Reply("submit", 500, 0, "none", 0)
                /\ UNCHANGED <<complaints, complaint_vectors>>
           ELSE IF fault = "insert"
           THEN \* the insert returns no row: HTTPException(500)
                /\ response' = Reply("submit", 500, 0, "insert", 0)
                /\ UNCHANGED <<complaints, complaint_vectors>>
           ELSE /\ complaint_vectors' =
                       IF fault # "vector_insert"
                       THEN Append(complaint_vectors,
                                   [complaint_id |-> id,
                                    embedding |-> [kind |-> "str",
                                                   val |-> json_dumps(emb.values)]])
                       ELSE complaint_vectors
                /\ complaints' =
                       IF refreshes
                       THEN refresh_priority(inserted, votes, row.duplicate_of,
                                             clock, fault = "refresh")
                       ELSE inserted
                /\ response' =
                       Reply("submit", 201, id,
                             IF \/ fault = "vector_insert" /\ embedded
                                \/ fault = "refresh" /\ refreshes
                             THEN fault ELSE "none", 0)

\* mutant: a failing embedding insert is not caught
create_complaint_vector_fatal(user, data, ai, emb, fault) ==
    LET embedded == emb.ok /\ emb.values # <<>>
        row == complaint_row(user, data, ai, emb, complaints,
                             complaint_vectors, clock)
        id == Len(complaints) + 1
        inserted == Append(complaints, row)
        refreshes == row.duplicate_of # None
    IN  /\ UNCHANGED <<clock, votes, resolution_logs>>
        /\ IF ai.kind = "nondict"
           THEN /\ response' = Reply("submit", 500, 0, "none", 0)
                /\ UNCHANGED <<complaints, complaint_vectors>>
           ELSE IF fault = "insert"
           THEN /\ response' = Reply("submit", 500, 0, "insert", 0)
                /\ UNCHANGED <<complaints, complaint_vectors>>
           ELSE IF fault = "vector_insert" /\ embedded
           THEN /\ response' = Reply("submit", 500, 0, "vector_insert", 0)
                /\ complaints' = inserted
                /\ UNCHANGED complaint_vectors
           ELSE /\ complaint_vectors' =
                       IF embedded
                       THEN Append(complaint_vectors,
                                   [complaint_id |-> id,
                                    embedding |-> [kind |-> "str",
                                                   val |-> json_dumps(emb.values)]])
                       ELSE complaint_vectors
                /\ complaints' =
                       IF refreshes
                       THEN refresh_priority(inserted, votes, row.duplicate_of,
                                             clock, fault = "refresh")
                       ELSE inserted
                /\ response' =
                       Reply("submit", 201, id,
                             IF fault = "refresh" /\ refreshes
                             THEN fault ELSE "none", 0)

\* mutant: the embedding record is written before the complaint insert
create_complaint_vector_first(user, data, ai, emb, fault) ==
    LET embedded == emb.ok /\ emb.values # <<>>
        row == complaint_row(user, data, ai, emb, complaints,
                             complaint_vectors, clock)
        id == Len(complaints) + 1
        inserted == Append(complaints, row)
        refreshes == row.duplicate_of # None
        vectors == IF embedded /\ fault # "vector_insert"
                   THEN Append(complaint_vectors,
                               [complaint_id |-> id,
                                embedding |-> [kind |-> "str",
                                               val |-> json_dumps(emb.values)]])
                   ELSE complaint_vectors
    IN  /\ UNCHANGED <<clock, votes, resolution_logs>>
        /\ IF ai.kind = "nondict"
           THEN /\ response' = Reply("submit", 500, 0, "none", 0)
                /\ UNCHANGED <<complaints, complaint_vectors>>
           ELSE IF fault = "insert"
           THEN /\ response' = Reply("submit", 500, 0, "insert", 0)
                /\ complaint_vectors' = vectors
                /\ UNCHANGED complaints
           ELSE /\ complaint_vectors' = vectors
                /\ complaints' =
                       IF refreshes
                       THEN refresh_priority(inserted, votes, row.duplicate_of,
                                             clock, fault = "refresh")
                       ELSE inserted
                /\ response' =
                       Reply("submit", 201, id,
                             IF \/ fault = "vector_insert" /\ embedded
                                \/ fault = "refresh" /\ refreshes
                             THEN fault ELSE "none", 0)

\* create_complaint(data, user_id) with the classifier outcome ai, the
\* embedding emb and the store call that fails in it (fault)
create_complaint(user, data, ai, emb, fault) ==
    LET embedded == emb.ok /\ emb.values # <<>>
        row == complaint_row(user, data, ai, emb, complaints,
                             complaint_vectors, clock)
        id == Len(complaints) + 1
        inserted == Append(complaints, row)
        refreshes == row.duplicate_of # None
    IN  /\ UNCHANGED <<clock, votes, resolution_logs>>
        /\ IF ai.kind = "nondict"
           THEN \* ai_result.get raises AttributeError
                /\ response' = Reply("submit", 500, 0, "none", 0)
                /\ UNCHANGED <<complaints, complaint_vectors>>
           ELSE IF fault = "insert"
           THEN \* the insert returns no row: HTTPException(500)
                /\ response' = Reply("submit", 500, 0, "insert", 0)
                /\ UNCHANGED <<complaints, complaint_vectors>>
           ELSE /\ complaint_vectors' =
                       IF embedded /\ fault # "vector_insert"
                       THEN Append(complaint_vectors,
                                   [complaint_id |-> id,
                                    embedding |-> [kind |-> "str",
                                                   val |-> json_dumps(emb.values)]])
                       ELSE complaint_vectors
                /\ complaints' =
                       IF refreshes
                       THEN refresh_priority(inserted, votes, row.duplicate_of,
                                             clock, fault = "refresh")
                       ELSE inserted
                /\ response' =
                       Reply("submit", 201, id,
                             IF \/ fault = "vector_insert" /\ embedded
                                \/ fault = "refresh" /\ refreshes
                             THEN fault ELSE "none", 0)

\* mutant: the timestamp is recorded before the cap is checked
submit_complaint_counts_rejected(user, data, ai, emb, fault) ==
    LET pruned == prune(submission_log[user], clock)
    IN  IF limit_reached(pruned)
        THEN /\ submission_log' =
                    [submission_log EXCEPT ![user] = Append(pruned, clock)]
             /\ response' = Reply("submit", 429, 0, "none", 0)
             /\ UNCHANGED <<clock, store, admitted>>
        ELSE /\ submission_log' =
                    [submission_log EXCEPT ![user] = Append(pruned, clock)]
             /\ admitted' = [admitted EXCEPT ![user] = Append(@, clock)]
             /\ create_complaint(user, data, ai, emb, fault)

\* POST /complaints: check_complaint_rate_limit, then create_complaint
submit_complaint(user, data, ai, emb, fault) ==
    LET pruned == prune(submission_log[user], clock)
    IN  IF limit_reached(pruned)
        THEN /\ submission_log' = [submission_log EXCEPT ![user] = pruned]
             /\ response' = Reply("submit", 429, 0, "none", 0)
             /\ UNCHANGED <<clock, store, admitted>>
        ELSE /\ submission_log' =
                    [submission_log EXCEPT ![user] = Append(pruned, clock)]
             /\ admitted' = [admitted EXCEPT ![user] = Append(@, clock)]
             /\ create_complaint(user, data, ai, emb, fault)

\* mutant: the vote is inserted before the already-voted check rejects it
vote_on_complaint_late_check(complaint_id, user_id, fault) ==
    LET voted == votes (+) SetToBag({[complaint_id |-> complaint_id,
                                      user_id |-> user_id]})
    IN  /\ complaint_id \in DOMAIN complaints
        /\ votes' = voted
        /\ response' =
              IF existing_votes(votes, complaint_id, user_id) > 0
              THEN Reply("vote", 409, complaint_id, "none", 0)
              ELSE Reply("vote", 200, complaint_id, "none",
                         count_votes(voted, complaint_id))
        /\ UNCHANGED <<clock, complaints, complaint_vectors, resolution_logs,
                       limiter>>

\* mutant: the count returned is read before the insert
vote_on_complaint_stale_count(complaint_id, user_id, fault) ==
    LET reply(status, failed, n) ==
            Reply("vote", status, complaint_id, failed, n)
        voted == votes (+) SetToBag({[complaint_id |-> complaint_id,
                                      user_id |-> user_id]})
    IN  IF existing_votes(votes, complaint_id, user_id) > 0
        THEN /\ response' = reply(409, "none", 0)
             /\ UNCHANGED <<clock, store, limiter>>
        ELSE IF complaint_id \notin DOMAIN complaints
        THEN /\ response' = reply(404, "none", 0)
             /\ UNCHANGED <<clock, store, limiter>>
        ELSE /\ votes' = voted
             /\ complaints' = refresh_priority(complaints, voted, complaint_id,
                                               clock, fault = "refresh")
             /\ response' = reply(200, fault, count_votes(votes, complaint_id))
             /\ UNCHANGED <<clock, complaint_vectors, resolution_logs, limiter>>

\* mutant: a failure inside the refresh fails the vote request
vote_on_complaint_refresh_fatal(complaint_id, user_id, fault) ==
    LET reply(status, failed, n) ==
            Reply("vote", status, complaint_id, failed, n)
        voted == votes (+) SetToBag({[complaint_id |-> complaint_id,
                                      user_id |-> user_id]})
    IN  IF existing_votes(votes, complaint_id, user_id) > 0
        THEN /\ response' = reply(409, "none", 0)
             /\ UNCHANGED <<clock, store, limiter>>
        ELSE IF complaint_id \notin DOMAIN complaints
        THEN /\ response' = reply(404, "none", 0)
             /\ UNCHANGED <<clock, store, limiter>>
        ELSE /\ votes' = voted
             /\ complaints' = refresh_priority(complaints, voted, complaint_id,
                                               clock, fault = "refresh")
             /\ response' = IF fault = "refresh"
                            THEN reply(500, fault, 0)
                            ELSE reply(200, fault, count_votes(voted, complaint_id))
             /\ UNCHANGED <<clock, complaint_vectors, resolution_logs, limiter>>

\* POST /complaints/{id}/vote: vote_on_complaint
vote_on_complaint(complaint_id, user_id, fault) ==
    LET reply(status, failed, n) ==
            Reply("vote", status, complaint_id, failed, n)
        voted == votes (+) SetToBag({[complaint_id |-> complaint_id,
                                      user_id |-> user_id]})
    IN  IF existing_votes(votes, complaint_id, user_id) > 0
        THEN /\ response' = reply(409, "none", 0)
             /\ UNCHANGED <<clock, store, limiter>>
        ELSE IF complaint_id \notin DOMAIN complaints
        THEN /\ response' = reply(404, "none", 0)
             /\ UNCHANGED <<clock, store, limiter>>
        ELSE /\ votes' = voted
             /\ complaints' = refresh_priority(complaints, voted, complaint_id,
                                               clock, fault = "refresh")
             /\ response' = reply(200, fault, count_votes(voted, complaint_id))
             /\ UNCHANGED <<clock, complaint_vectors, resolution_logs, limiter>>

\* mutant: resolving a resolved complaint is a no-op
resolve_complaint_once(complaint_id, admin_id, note) ==
    LET reply(status) == Reply("resolve", status, complaint_id, "none", 0)
    IN  IF complaint_id \notin DOMAIN complaints
        THEN /\ response' = reply(404)
             /\ UNCHANGED <<clock, store, limiter>>
        ELSE IF complaints[complaint_id].status = "resolved"
        THEN /\ response' = reply(200)
             /\ UNCHANGED <<clock, store, limiter>>
        ELSE /\ complaints' = [complaints EXCEPT ![complaint_id].status = "resolved"]
             /\ resolution_logs' =
                    Append(resolution_logs,
                           [complaint_id |-> complaint_id, resolved_by |-> admin_id,
                            resolution_note |-> note])
             /\ response' = reply(200)
             /\ UNCHANGED <<clock, votes, complaint_vectors, limiter>>

\* mutant: resolving refreshes the complaint's score
resolve_complaint_refreshing(complaint_id, admin_id, note) ==
    LET reply(status) == Reply("resolve", status, complaint_id, "none", 0)
    IN  IF complaint_id \notin DOMAIN complaints
        THEN /\ response' = reply(404)
             /\ UNCHANGED <<clock, store, limiter>>
        ELSE /\ complaints' =
                    refresh_priority(
                        [complaints EXCEPT ![complaint_id].status = "resolved"],
                        votes, complaint_id, clock, FALSE)
             /\ resolution_logs' =
                    Append(resolution_logs,
                           [complaint_id |-> complaint_id, resolved_by |-> admin_id,
                            resolution_note |-> note])
             /\ response' = reply(200)
             /\ UNCHANGED <<clock, votes, complaint_vectors, limiter>>

\* PATCH /complaints/{id}/resolve: resolve_complaint
resolve_complaint(complaint_id, admin_id, note) ==
    LET reply(status) == Reply("resolve", status, complaint_id, "none", 0)
    IN  IF complaint_id \notin DOMAIN complaints
        THEN /\ response' = reply(404)
             /\ UNCHANGED <<clock, store, limiter>>
        ELSE /\ complaints' = [complaints EXCEPT ![complaint_id].status = "resolved"]
             /\ resolution_logs' =
                    Append(resolution_logs,
                           [complaint_id |-> complaint_id, resolved_by |-> admin_id,
                            resolution_note |-> note])
             /\ response' = reply(200)
             /\ UNCHANGED <<clock, votes, complaint_vectors, limiter>>

\* time passes between requests, up to the time limit
Tick(limit) ==
    /\ clock < limit
    /\ clock' = clock + 1
    /\ response' = NoResponse
    /\ UNCHANGED <<store, limiter, calls>>

(* ------------------------- request inputs ------------------------------ *)
\* a description of n characters
Description(n) == [i \in 1 .. n |-> IF i % 2 = 1 THEN "a" ELSE "b"]

\* what a citizen declares (validated by ComplaintCreate)
Declared ==
    [category |-> "Other", severity |-> "High", description |-> Description(10)]

\* what analyze_complaint does: raises, returns a JSON object, or returns
\* JSON that is no object
Raises ==
    [kind |-> "raise", category |-> Missing, severity |-> Missing,
     summary |-> MissingList, keywords |-> MissingList]
NonDict ==
    [kind |-> "nondict", category |-> Missing, severity |-> Missing,
     summary |-> MissingList, keywords |-> MissingList]
Dict(category, severity, summary, keywords) ==
    [kind |-> "dict", category |-> category, severity |-> severity,
     summary |-> summary, keywords |-> keywords]

\* what get_embedding returns: None (ok = FALSE) or the vector
Unavailable == [ok |-> FALSE, values |-> <<>>]
Vector(v) == [ok |-> TRUE, values |-> v]

\* the submissions tried: the request data, what the classifier does with
\* it, and the embedding obtained for it
Submissions ==
    {[data |-> Declared, ai |-> Raises, emb |-> Vector(<<0, 1>>)],
     [data |-> Declared,
      ai |-> Dict("Water Supply", "Medium", <<"l", "e", "a", "k">>, <<"pipe">>),
      emb |-> Vector(<<1, 0>>)],
     [data |-> Declared,
      ai |-> Dict("Garbage", "Critical", <<"b", "i", "n">>, MissingList),
      emb |-> Vector(<<3, 1>>)],
     [data |-> Declared,
      ai |-> Dict(Missing, Missing, MissingList, MissingList),
      emb |-> Unavailable],
     [data |-> Declared, ai |-> NonDict, emb |-> Vector(<<1, 0>>)]}

\* the store calls that fail in a request: the primary insert of a
\* submission, the refresh triggered by a vote
SubmitFaults == {"none", "insert"}
VoteFaults == {"none", "refresh"}
Admin == "admin"
Note == "fixed"

\* rows held by the tables the requests grow
Rows == Len(complaints) + BagCardinality(votes) + Len(resolution_logs)

\* complaint ids a request may name: those stored and one that is not
Ids == 1 .. Len(complaints) + 1

\* the service operations, called by one citizen u1 and any voter, while the
\* tables hold at most MaxRows rows
Next ==
    \/ /\ \E s \in Submissions, fault \in SubmitFaults :
             create_complaint("u1", s.data, s.ai, s.emb, fault)
       /\ UNCHANGED <<limiter, calls>>
       /\ Rows' <= MaxRows
    \/ /\ \E complaint_id \in Ids, user \in Users, fault \in VoteFaults :
             vote_on_complaint(complaint_id, user, fault)
       /\ UNCHANGED calls
       /\ Rows' <= MaxRows
    \/ /\ \E complaint_id \in Ids : resolve_complaint(complaint_id, Admin, Note)
       /\ UNCHANGED calls
       /\ Rows' <= MaxRows
    \/ Tick(MaxClock)

Spec == Init /\ [][Next]_vars

(* ------------------ the route POST /complaints alone ------------------- *)
\* the submissions tried through the route: the store saves the first
\* complaint and refuses the insert of every other
NextLimiter ==
    \/ /\ complaints = <<>>
       /\ \E user \in Users :
             submit_complaint(user, Declared, Raises, Unavailable, "none")
       /\ UNCHANGED calls
    \/ /\ \E user \in Users :
             submit_complaint(user, Declared, Raises, Unavailable, "insert")
       /\ UNCHANGED calls
    \/ Tick(MaxClock + 1)

SpecLimiter == Init /\ [][NextLimiter]_vars

(* ---------------- compute_priority_score on its own -------------------- *)
\* the arguments tried: any severity string, counts up to MaxCount, and
\* ages from a day in the future to a hundred days
Severities == SeverityLevel \cup {"Critical", ""}

Ages == {0 - TicksPerDay, 0, 1, TicksPerDay \div 4, TicksPerDay, 2 * TicksPerDay + 1,
         40 * TicksPerDay, 100 * TicksPerDay}

ScoreNow == 100 * TicksPerDay

ScoreCalls ==
    [op : {"compute_priority_score"}, severity : Severities,
     vote_count : 0 .. MaxCount, duplicate_count : 0 .. MaxCount,
     created_at : {ScoreNow - a : a \in Ages}, status : ComplaintStatus,
     returned : {FALSE}, result : {0}]

InitScore ==
    /\ clock = ScoreNow
    /\ complaints = <<>>
    /\ votes = EmptyBag
    /\ complaint_vectors = <<>>
    /\ resolution_logs = <<>>
    /\ submission_log = [u \in Users |-> <<>>]
    /\ admitted = [u \in Users |-> <<>>]
    /\ response \in ScoreCalls
    /\ calls = [p \in Procs |-> Idle]

\* the call returns
ScoreReturn ==
    /\ response.op = "compute_priority_score"
    /\ ~response.returned
    /\ response' =
          [response EXCEPT
             !.returned = TRUE,
             !.result = compute_priority_score(
                            response.severity, response.vote_count,
                            response.duplicate_count, response.created_at,
                            response.status, clock)]
    /\ UNCHANGED <<clock, store, limiter, calls>>

SpecScore == InitScore /\ [][ScoreReturn]_vars

(* ------------- submissions the classifier fails on --------------------- *)
\* what is declared: descriptions of the shortest length the schema admits,
\* of SUMMARY_LIMIT characters, and of one more
FallbackData ==
    [category : {"Other", "Sanitation"}, severity : {"Low", "High"},
     description : {Description(10), Description(SUMMARY_LIMIT),
                    Description(SUMMARY_LIMIT + 1)}]

FallbackEmbeddings == {Unavailable, Vector(<<1, 0>>)}

NextFallback ==
    \/ /\ Len(complaints) < MaxCount
       /\ \E data \in FallbackData, emb \in FallbackEmbeddings :
             create_complaint("u1", data, Raises, emb, "none")
       /\ UNCHANGED <<limiter, calls>>
    \/ Tick(MaxClock)

SpecFallback == Init /\ [][NextFallback]_vars

(* -------------------- find_duplicate on its own ------------------------ *)
\* the embedding column of a stored row: a JSON text, a list, or empty
Text(vec) == [kind |-> "str", val |-> json_dumps(vec)]
List(vec) == [kind |-> "list", val |-> vec]
Null == [kind |-> "null", val |-> <<>>]

\* a text json.loads rejects: "[1"
Malformed == [kind |-> "str", val |-> <<Sym("["), Num(1)>>]

\* the embedding asked about, and the columns tried: <<17, 10, 3, 1, 1>> is
\* at similarity 17 / sqrt(400) = 0.85 exactly, <<9, 1, 0, 0, 0>> at 0.99,
\* <<3, 4, 0, 0, 0>> at 0.6, <<0 - 1, 0, 0, 0, 0>> at -1, <<2, 0, 0, 0, 0>> at 1
Probe == <<1, 0, 0, 0, 0>>

Columns ==
    {Text(<<17, 10, 3, 1, 1>>), Text(<<9, 1, 0, 0, 0>>), List(<<2, 0, 0, 0, 0>>),
     Text(<<3, 4, 0, 0, 0>>), List(<<0 - 1, 0, 0, 0, 0>>), List(<<9, 1, 0, 0, 0>>),
     Null, Text(<<>>), Malformed}

\* the corpora tried: row i has complaint id i
Corpora ==
    UNION {[1 .. n -> Columns] : n \in 0 .. MaxCorpus}

StoredVectors(columns) ==
    [i \in DOMAIN columns |-> [complaint_id |-> i, embedding |-> columns[i]]]

DupCalls ==
    [op : {"find_duplicate"}, new_embedding : {Probe},
     stored_vectors : {StoredVectors(c) : c \in Corpora},
     returned : {FALSE}, result : {NoMatch}]

InitDup ==
    /\ clock = 0
    /\ complaints = <<>>
    /\ votes = EmptyBag
    /\ complaint_vectors = <<>>
    /\ resolution_logs = <<>>
    /\ submission_log = [u \in Users |-> <<>>]
    /\ admitted = [u \in Users |-> <<>>]
    /\ response \in DupCalls
    /\ calls = [p \in Procs |-> Idle]

\* the call returns
DupReturn ==
    /\ response.op = "find_duplicate"
    /\ ~response.returned
    /\ response' =
          [response EXCEPT
             !.returned = TRUE,
             !.result = find_duplicate(response.new_embedding,
                                       response.stored_vectors)]
    /\ UNCHANGED <<clock, store, limiter, calls>>

SpecDup == InitDup /\ [][DupReturn]_vars

(* ----------------- requests served side by side ----------------------- *)
\* Each store call of a request is one step of the worker serving it; the
\* steps of different workers interleave freely.  What a call was answered
\* is kept in calls; response is left empty by the workers' steps.
Call(p) == calls[p]

At(p, op, pc) == calls[p].op = op /\ calls[p].pc = pc

\* the call of p ends with an HTTP status (0: the worker was cut short);
\* what it had read is forgotten
Finish(p, status) ==
    [Idle EXCEPT !.op = calls[p].op, !.pc = "done", !.status = status,
                 !.target = calls[p].target, !.user = calls[p].user,
                 !.id = calls[p].id]

Goto(p, pc) == [calls[p] EXCEPT !.pc = pc]

\* mutant: the votes table carries no uniqueness constraint
unique_violation_unconstrained(vs, row) == FALSE

\* the uniqueness constraint of votes on (complaint_id, user_id): whether
\* the store refuses to insert row
unique_violation(vs, row) == BagIn(row, vs)

StartVote(p, complaint_id, user_id) ==
    /\ calls[p].pc = "idle"
    /\ calls' = [calls EXCEPT ![p] =
                    [Idle EXCEPT !.op = "vote", !.pc = "check",
                                 !.target = complaint_id, !.user = user_id]]
    /\ response' = NoResponse
    /\ UNCHANGED <<clock, store, limiter>>

\* the already-voted select: 409 when a row is found
VoteCheck(p) ==
    /\ At(p, "vote", "check")
    /\ calls' = [calls EXCEPT ![p] =
                    IF existing_votes(votes, Call(p).target, Call(p).user) > 0
                    THEN Finish(p, 409) ELSE Goto(p, "exists")]
    /\ response' = NoResponse
    /\ UNCHANGED <<clock, store, limiter>>

\* the complaint-exists select: 404 when none is found
VoteExists(p) ==
    /\ At(p, "vote", "exists")
    /\ calls' = [calls EXCEPT ![p] =
                    IF Call(p).target \notin DOMAIN complaints
                    THEN Finish(p, 404) ELSE Goto(p, "insert")]
    /\ response' = NoResponse
    /\ UNCHANGED <<clock, store, limiter>>

\* the insert into votes: the store raises on a row it refuses, which the
\* handler does not catch
VoteInsert(p) ==
    LET row == [complaint_id |-> Call(p).target, user_id |-> Call(p).user]
    IN  /\ At(p, "vote", "insert")
        /\ IF unique_violation(votes, row)
           THEN /\ calls' = [calls EXCEPT ![p] = Finish(p, 500)]
                /\ UNCHANGED votes
           ELSE /\ calls' = [calls EXCEPT ![p] = Goto(p, "refresh_row")]
                /\ votes' = votes (+) SetToBag({row})
        /\ response' = NoResponse
        /\ UNCHANGED <<clock, complaints, complaint_vectors, resolution_logs, limiter>>

\* where a call goes on when its refresh is over
AfterRefresh(p) == IF Call(p).op = "vote" THEN "count" ELSE "return"

\* _refresh_priority, first select: the row of the complaint
RefreshRow(p) ==
    /\ calls[p].pc = "refresh_row"
    /\ calls' = [calls EXCEPT ![p] =
                    IF Call(p).target \notin DOMAIN complaints
                    THEN Goto(p, AfterRefresh(p))
                    ELSE LET c == complaints[Call(p).target]
                         IN  [Call(p) EXCEPT
                                !.pc = "refresh_votes",
                                !.read = [severity |-> c.severity,
                                          created_at |-> c.created_at,
                                          status |-> c.status]]]
    /\ response' = NoResponse
    /\ UNCHANGED <<clock, store, limiter>>

\* _refresh_priority, second select: the vote count
RefreshVotes(p) ==
    /\ calls[p].pc = "refresh_votes"
    /\ calls' = [calls EXCEPT ![p] =
                    [Call(p) EXCEPT !.pc = "refresh_dups",
                                    !.n_votes = count_votes(votes, Call(p).target)]]
    /\ response' = NoResponse
    /\ UNCHANGED <<clock, store, limiter>>

\* _refresh_priority, third select: the duplicate count
RefreshDups(p) ==
    /\ calls[p].pc = "refresh_dups"
    /\ calls' = [calls EXCEPT ![p] =
                    [Call(p) EXCEPT
                       !.pc = "refresh_write",
                       !.n_dups = count_duplicates(complaints, Call(p).target)]]
    /\ response' = NoResponse
    /\ UNCHANGED <<clock, store, limiter>>

\* _refresh_priority, the update: the score computed from what was read
RefreshWrite(p) ==
    LET me == Call(p)
        new_score == compute_priority_score(me.read.severity, me.n_votes, me.n_dups,
                                            me.read.created_at, me.read.status, clock)
    IN  /\ calls[p].pc = "refresh_write"
        /\ complaints' = [complaints EXCEPT ![me.target].priority_score = new_score]
        /\ calls' = [calls EXCEPT ![p] = Goto(p, AfterRefresh(p))]
        /\ response' = NoResponse
        /\ UNCHANGED <<clock, votes, complaint_vectors, resolution_logs, limiter>>

\* the count select of vote_on_complaint, and its answer
VoteCount(p) ==
    /\ At(p, "vote", "count")
    /\ calls' = [calls EXCEPT ![p] =
                    [Finish(p, 200) EXCEPT
                       !.vote_count = count_votes(votes, Call(p).target)]]
    /\ response' = NoResponse
    /\ UNCHANGED <<clock, store, limiter>>

StartSubmit(p, s) ==
    /\ calls[p].pc = "idle"
    /\ calls' = [calls EXCEPT ![p] =
                    [Idle EXCEPT !.op = "submit", !.pc = "detect", !.user = "u1",
                                 !.sub = s]]
    /\ response' = NoResponse
    /\ UNCHANGED <<clock, store, limiter>>

\* create_complaint up to the row to insert: the classifier's result is
\* read (a result that is no object raises), the corpus is selected and
\* searched, the parent's duplicates are counted, the score is computed
SubmitDetect(p) ==
    LET s == Call(p).sub
        row == complaint_row(Call(p).user, s.data, s.ai, s.emb, complaints,
                             complaint_vectors, clock)
    IN  /\ At(p, "submit", "detect")
        /\ calls' = [calls EXCEPT ![p] =
                        IF s.ai.kind = "nondict"
                        THEN Finish(p, 500)
                        ELSE [Call(p) EXCEPT !.pc = "insert", !.row = row,
                                             !.target = row.duplicate_of]]
        /\ response' = NoResponse
    /\ UNCHANGED <<clock, store, limiter>>

\* mutant: an insert that returned no row is not noticed
SubmitInsert_unchecked(p, fault) ==
    LET id == Len(complaints) + 1
    IN  /\ At(p, "submit", "insert")
        /\ calls' = [calls EXCEPT ![p] = [Call(p) EXCEPT !.pc = "vector", !.id = id]]
        /\ complaints' =
              IF fault = "insert" THEN complaints
              ELSE Append(complaints, [Call(p).row EXCEPT !.created_at = clock])
        /\ response' = NoResponse
        /\ UNCHANGED <<clock, votes, complaint_vectors, resolution_logs, limiter>>

\* the insert into complaints, which stamps created_at; 500 when it returns
\* no row
SubmitInsert(p, fault) ==
    LET id == Len(complaints) + 1
    IN  /\ At(p, "submit", "insert")
        /\ IF fault = "insert"
           THEN /\ calls' = [calls EXCEPT ![p] = Finish(p, 500)]
                /\ UNCHANGED complaints
           ELSE /\ calls' = [calls EXCEPT ![p] =
                                [Call(p) EXCEPT !.pc = "vector", !.id = id]]
                /\ complaints' =
                      Append(complaints, [Call(p).row EXCEPT !.created_at = clock])
        /\ response' = NoResponse
        /\ UNCHANGED <<clock, votes, complaint_vectors, resolution_logs, limiter>>

\* the insert into complaint_vectors, when there is an embedding
SubmitVector(p) ==
    LET emb == Call(p).sub.emb
    IN  /\ At(p, "submit", "vector")
        /\ complaint_vectors' =
              IF emb.ok /\ emb.values # <<>>
              THEN Append(complaint_vectors,
                          [complaint_id |-> Call(p).id, embedding |-> Text(emb.values)])
              ELSE complaint_vectors
        /\ calls' = [calls EXCEPT ![p] =
                        Goto(p, IF Call(p).target # None
                                THEN "refresh_row" ELSE "return")]
        /\ response' = NoResponse
        /\ UNCHANGED <<clock, complaints, votes, resolution_logs, limiter>>

SubmitReturn(p) ==
    /\ At(p, "submit", "return")
    /\ calls' = [calls EXCEPT ![p] = Finish(p, 201)]
    /\ response' = NoResponse
    /\ UNCHANGED <<clock, store, limiter>>

\* the worker is cut short between two store calls
Abort(p) ==
    /\ calls[p].pc \notin {"idle", "done"}
    /\ calls' = [calls EXCEPT ![p] = Finish(p, 0)]
    /\ response' = NoResponse
    /\ UNCHANGED <<clock, store, limiter>>

\* _refresh_priority(complaint_id) run from its first select to its update
\* with no step of another worker in between; response.was keeps the score
\* it overwrote
RefreshAlone(complaint_id) ==
    /\ complaints' = refresh_priority(complaints, votes, complaint_id, clock, FALSE)
    /\ response' = [op |-> "refresh", status |-> 200, id |-> complaint_id,
                     was |-> complaints[complaint_id].priority_score]
    /\ UNCHANGED <<clock, votes, complaint_vectors, resolution_logs, limiter, calls>>

\* the submissions the workers serve: one with an embedding close to the
\* stored complaint's, one without an embedding
ConcurrentSubmissions ==
    {s \in Submissions : s.ai.severity = "Critical" \/ s.emb = Unavailable}

\* the store the workers start from: one complaint, submitted at time 0
Seed == CHOOSE s \in Submissions : s.ai.severity = "Medium"

InitConcurrent ==
    /\ clock = 0
    /\ complaints = <<complaint_row("u1", Seed.data, Seed.ai, Seed.emb,
                                    <<>>, <<>>, 0)>>
    /\ votes = EmptyBag
    /\ complaint_vectors = <<[complaint_id |-> 1, embedding |-> Text(Seed.emb.values)]>>
    /\ resolution_logs = <<>>
    /\ submission_log = [u \in Users |-> <<>>]
    /\ admitted = [u \in Users |-> <<>>]
    /\ response = NoResponse
    /\ calls = [p \in Procs |-> Idle]

NextConcurrent ==
    \/ \E p \in Procs, complaint_id \in Ids, user \in Users :
          StartVote(p, complaint_id, user)
    \/ \E p \in Procs, s \in ConcurrentSubmissions : StartSubmit(p, s)
    \/ \E p \in Procs : VoteCheck(p)
    \/ \E p \in Procs : VoteExists(p)
    \/ \E p \in Procs : VoteInsert(p)
    \/ \E p \in Procs : RefreshRow(p)
    \/ \E p \in Procs : RefreshVotes(p)
    \/ \E p \in Procs : RefreshDups(p)
    \/ \E p \in Procs : RefreshWrite(p)
    \/ \E p \in Procs : VoteCount(p)
    \/ \E p \in Procs : SubmitDetect(p)
    \/ \E p \in Procs, fault \in SubmitFaults : SubmitInsert(p, fault)
    \/ \E p \in Procs : SubmitVector(p)
    \/ \E p \in Procs : SubmitReturn(p)
    \/ \E p \in Procs : Abort(p)
    \/ \E complaint_id \in DOMAIN complaints : RefreshAlone(complaint_id)
    \/ Tick(MaxClock)

SpecConcurrent == InitConcurrent /\ [][NextConcurrent]_vars

(* ------------------- _refresh_priority on any store -------------------- *)
\* the submissions that build a chain of duplicates: the second is close to
\* the first, a third is closest to the second
ChainSubmissions ==
    {s \in Submissions : s.ai.kind = "dict" /\ s.emb.ok}

\* the complaints are submitted at time 0; then one vote is cast, one
\* complaint is resolved and time passes, no store call failing, while
\* _refresh_priority runs on any complaint at any moment in between
NextRefresh ==
    \/ /\ clock = 0 /\ votes = EmptyBag /\ resolution_logs = <<>>
       /\ \E s \in ChainSubmissions :
             create_complaint("u1", s.data, s.ai, s.emb, "none")
       /\ UNCHANGED <<limiter, calls>>
       /\ Len(complaints') <= MaxChain
    \/ /\ votes = EmptyBag
       /\ \E complaint_id \in DOMAIN complaints :
             vote_on_complaint(complaint_id, "u2", "none")
       /\ UNCHANGED calls
    \/ /\ resolution_logs = <<>>
       /\ \E complaint_id \in DOMAIN complaints :
             resolve_complaint(complaint_id, Admin, Note)
       /\ UNCHANGED calls
    \/ \E complaint_id \in DOMAIN complaints : RefreshAlone(complaint_id)
    \/ Tick(MaxClock)

SpecRefresh == Init /\ [][NextRefresh]_vars

(* ------------------- requests with failing store calls ----------------- *)
\* the store call that fails in a submission: none, the complaint insert,
\* the embedding insert, or a call inside the parent's refresh
Faults == {"none", "insert", "vector_insert", "refresh"}

\* submissions and one vote, in each of which any one store call may fail
NextFaults ==
    \/ /\ \E s \in ChainSubmissions, fault \in Faults :
             create_complaint("u1", s.data, s.ai, s.emb, fault)
       /\ UNCHANGED <<limiter, calls>>
       /\ Len(complaints') <= MaxCount
    \/ /\ votes = EmptyBag
       /\ \E complaint_id \in DOMAIN complaints, fault \in VoteFaults :
             vote_on_complaint(complaint_id, "u2", fault)
       /\ UNCHANGED calls
    \/ Tick(MaxClock)

SpecFaults == Init /\ [][NextFaults]_vars

(* --------------- several reports of one issue, then votes -------------- *)
\* reports submitted at time 0, the later ones duplicates of an earlier one;
\* then one vote, one resolution, and time passing
NextReports ==
    \/ /\ clock = 0 /\ votes = EmptyBag /\ resolution_logs = <<>>
       /\ \E s \in ChainSubmissions :
             create_complaint("u1", s.data, s.ai, s.emb, "none")
       /\ UNCHANGED <<limiter, calls>>
       /\ Len(complaints') <= MaxReports
    \/ /\ votes = EmptyBag
       /\ \E complaint_id \in DOMAIN complaints, user \in Users :
             vote_on_complaint(complaint_id, user, "none")
       /\ UNCHANGED calls
    \/ /\ resolution_logs = <<>>
       /\ \E complaint_id \in DOMAIN complaints :
             resolve_complaint(complaint_id, Admin, Note)
       /\ UNCHANGED calls
    \/ Tick(MaxClock)

SpecReports == Init /\ [][NextReports]_vars

(* ------------------------------ claims --------------------------------- *)
\* what the claims count, read off the tables
VotesOf(c) ==
    LET rows == {r \in BagToSet(votes) : r.complaint_id = c}
    IN  BagCardinality([r \in rows |-> CopiesIn(r, votes)])

DuplicatesOf(c) == {i \in DOMAIN complaints : complaints[i].duplicate_of = c}

\* the score the formula gives complaint c now, with d duplicates
Recomputed(c, d) ==
    compute_priority_score(complaints[c].severity, VotesOf(c), d,
                           complaints[c].created_at, complaints[c].status, clock)

StoredIsRecomputed(c) ==
    complaints[c].priority_score = Recomputed(c, Cardinality(DuplicatesOf(c)))

Completed(op, status) == response.op = op /\ response.status = status

\* C1: in every reachable state the votes table holds at most one row for
\* any (user id, complaint id) pair
C1_OneVotePerPair ==
    \A r \in BagToSet(votes) : CopiesIn(r, votes) = 1

\* a second vote by the same user was turned away while two users' votes stand
C1_Witness ==
    /\ Completed("vote", 409)
    /\ BagCardinality(votes) >= 2

\* C2 as stated: after every completed vote, duplicate submission or resolve
\* (no store call failing), the stored score of the voted complaint, of the
\* duplicate parent, and of the resolved complaint is the formula applied to
\* its current severity, votes, duplicate references, creation time and status
C2_RecomputedOnEveryChange ==
    response.failed = "none" =>
        /\ Completed("vote", 200) => StoredIsRecomputed(response.id)
        /\ Completed("resolve", 200) => StoredIsRecomputed(response.id)
        /\ ( /\ Completed("submit", 201)
             /\ complaints[response.id].duplicate_of # None )
           => StoredIsRecomputed(complaints[response.id].duplicate_of)

\* C2 amended: the same after every completed vote and duplicate submission
\* whose refresh did not fail; resolve is left out, it recomputes nothing
C2_RecomputedOnVoteAndDuplicate ==
    response.failed = "none" =>
        /\ Completed("vote", 200) => StoredIsRecomputed(response.id)
        /\ ( /\ Completed("submit", 201)
             /\ complaints[response.id].duplicate_of # None )
           => StoredIsRecomputed(complaints[response.id].duplicate_of)

\* a duplicate was submitted of an aged parent that holds a vote
C2_Witness ==
    /\ Completed("submit", 201)
    /\ response.failed = "none"
    /\ LET parent == complaints[response.id].duplicate_of
       IN  /\ parent # None
           /\ VotesOf(parent) >= 1
           /\ complaints[parent].created_at < clock

\* C3: whatever the classifier and the embedding client do, a submission
\* whose primary insert succeeds is persisted and returned
C3_SubmitSurvivesAI ==
    (response.op = "submit" /\ response.failed # "insert") =>
        /\ response.status = 201
        /\ response.id \in DOMAIN complaints

\* C4: every persisted complaint's severity and category lie in the closed
\* enumerations
C4_ClosedEnumerations ==
    \A i \in DOMAIN complaints :
        /\ complaints[i].severity \in SeverityLevel
        /\ complaints[i].category \in ComplaintCategory

StatusRank(status) ==
    CASE status = "pending" -> 0
      [] status = "in_progress" -> 1
      [] status = "resolved" -> 2

\* C5: no step moves a complaint's status backwards along pending,
\* in_progress, resolved; a resolved complaint stays resolved
C5_StatusOnlyForward ==
    [][\A i \in DOMAIN complaints :
          /\ i \in DOMAIN complaints'
          /\ StatusRank(complaints'[i].status) >= StatusRank(complaints[i].status)]_vars

\* a resolved complaint was voted on and refreshed, and is still resolved
C5_Witness ==
    /\ Completed("vote", 200)
    /\ response.failed = "none"
    /\ complaints[response.id].status = "resolved"

\* the embedding records stored before complaint id, and the one stored for it
CorpusBefore(id) == SelectSeq(complaint_vectors, LAMBDA v : v.complaint_id < id)
OwnVectors(id) == SelectSeq(complaint_vectors, LAMBDA v : v.complaint_id = id)

\* the similarity of vector e to corpus row v
SimilarityTo(e, v) == cosine_similarity(e, decode_embedding(v.embedding).val)

\* the corpus rows above the threshold that no other row beats
BestMatches(e, corpus) ==
    {i \in DOMAIN corpus :
        /\ ScoreGt(SimilarityTo(e, corpus[i]), SIMILARITY_THRESHOLD)
        /\ \A j \in DOMAIN corpus :
              ~ScoreGt(SimilarityTo(e, corpus[j]), SimilarityTo(e, corpus[i]))}

\* C6: when a completed submit of B got an embedding whose best similarity
\* to the stored corpus exceeds 0.85 and belongs to A, B is stored as a
\* duplicate of A, and A's stored score is 1.5 above the formula's value for
\* A with its previous duplicate count (same votes, status and time)
C6_DuplicateRaisesParent ==
    ( /\ Completed("submit", 201)
      /\ response.failed = "none"
      /\ OwnVectors(response.id) # <<>> ) =>
        LET b == response.id
            e == decode_embedding(OwnVectors(b)[1].embedding).val
            corpus == CorpusBefore(b)
            best == BestMatches(e, corpus)
            a == complaints[b].duplicate_of
        IN  best # {} =>
              /\ complaints[b].is_duplicate
              /\ a \in {corpus[i].complaint_id : i \in best}
              /\ complaints[a].priority_score =
                    Recomputed(a, Cardinality(DuplicatesOf(a) \ {b})) + 150

\* a third complaint was flagged a duplicate of a parent that had one already
C6_Witness ==
    /\ Completed("submit", 201)
    /\ response.failed = "none"
    /\ OwnVectors(response.id) # <<>>
    /\ complaints[response.id].is_duplicate
    /\ Cardinality(DuplicatesOf(complaints[response.id].duplicate_of)) >= 2

\* C7: a vote by a user who already has a vote on the complaint is answered
\* 409 and changes no table: no vote row, no vote count, no score
C7_SecondVoteRejected ==
    [][\A c \in Ids, u \in Users, f \in VoteFaults :
          ( /\ BagIn([complaint_id |-> c, user_id |-> u], votes)
            /\ vote_on_complaint(c, u, f) )
          => /\ response'.status = 409
             /\ UNCHANGED store]_vars

\* the second vote was turned away and the count is still 1
C7_Witness ==
    /\ Completed("vote", 409)
    /\ VotesOf(response.id) = 1

InWindow(log, t) == {i \in DOMAIN log : t - WindowTicks < log[i] /\ log[i] <= t}

\* C9: a check admits exactly when fewer than the cap of the user's earlier
\* admitted submissions lie in the window; no window ever holds more than the
\* cap of one user's admitted submissions; no retained list exceeds the cap
C9_RateLimit ==
    /\ [](\A u \in Users :
            /\ Len(submission_log[u]) <= rate_limit_complaints
            /\ \A t \in 0 .. clock :
                  Cardinality(InWindow(admitted[u], t)) <= rate_limit_complaints)
    /\ [][\A u \in Users, f \in {"none", "insert"} :
            submit_complaint(u, Declared, Raises, Unavailable, f) =>
               LET fewer == Cardinality(InWindow(admitted[u], clock))
                                < rate_limit_complaints
               IN  /\ fewer => /\ response'.status # 429
                               /\ admitted'[u] = Append(admitted[u], clock)
                   /\ ~fewer => /\ response'.status = 429
                                /\ admitted' = admitted]_vars

\* a user at the cap was turned away
C9_Witness ==
    /\ Completed("submit", 429)
    /\ \E u \in Users : Len(submission_log[u]) = rate_limit_complaints

\* the value of the formula in hundredths, times TicksPerDay, for a call
ExactScaled(call) ==
    LET weight == CASE call.severity = "Low" -> 100
                    [] call.severity = "Medium" -> 500
                    [] call.severity = "High" -> 1000
                    [] OTHER -> 100
        age == clock - call.created_at
        decay == IF call.status = "resolved" THEN 0
                 ELSE IF 50 * age <= 2000 * TicksPerDay THEN 50 * age
                 ELSE 2000 * TicksPerDay
    IN  (weight + 200 * call.vote_count + 150 * call.duplicate_count) * TicksPerDay
        + decay

Returned == response.op = "compute_priority_score" /\ response.returned

\* C10 as stated: the result is exactly weight + 2.0 v + 1.5 d + decay
C10_ExactFormula ==
    Returned => response.result * TicksPerDay = ExactScaled(response)

\* C10 amended: the result is that sum rounded to two decimals, that is the
\* hundredth nearest to it
C10_RoundedFormula ==
    Returned =>
        LET diff == response.result * TicksPerDay - ExactScaled(response)
        IN  /\ 2 * diff <= TicksPerDay
            /\ 2 * diff >= 0 - TicksPerDay

\* a pending Low complaint a hundred days old with no votes scores 21.0
C10_Witness ==
    /\ Returned
    /\ response.severity = "Low" /\ response.status = "pending"
    /\ response.vote_count = 0 /\ response.duplicate_count = 0
    /\ clock - response.created_at = 100 * TicksPerDay
    /\ response.result = 2100

\* the corpus rows find_duplicate can use: the column decodes to a non-empty
\* list
Usable(corpus) ==
    {i \in DOMAIN corpus :
        /\ decode_embedding(corpus[i].embedding).ok
        /\ decode_embedding(corpus[i].embedding).val # <<>>}

DupReturned == response.op = "find_duplicate" /\ response.returned

\* C11: find_duplicate returns a match exactly when some usable corpus entry
\* is strictly more similar than 0.85 (so none at exactly 0.85, none on an
\* empty corpus), and then the id and score returned are those of a usable
\* entry that no usable entry beats
C11_MatchIffAboveThreshold ==
    DupReturned =>
        LET e == response.new_embedding
            corpus == response.stored_vectors
            usable == Usable(corpus)
            result == response.result
        IN  /\ result.complaint_id # None <=>
                  \E i \in usable :
                      ScoreGt(SimilarityTo(e, corpus[i]), SIMILARITY_THRESHOLD)
            /\ result.complaint_id # None =>
                  \E i \in usable :
                      /\ corpus[i].complaint_id = result.complaint_id
                      /\ SimilarityTo(e, corpus[i]) = result.similarity
                      /\ \A j \in usable :
                            ~ScoreGt(SimilarityTo(e, corpus[j]), result.similarity)

\* the best entry is at exactly 0.85 and nothing is returned
C11_Witness ==
    /\ DupReturned
    /\ response.result.complaint_id = None
    /\ \E i \in Usable(response.stored_vectors) :
          LET sim == SimilarityTo(response.new_embedding, response.stored_vectors[i])
          IN  /\ ~ScoreGt(sim, SIMILARITY_THRESHOLD)
              /\ ~ScoreGt(SIMILARITY_THRESHOLD, sim)

\* C12: when the classifier call fails, the complaint persisted carries the
\* declared category and severity, the first 200 characters of the
\* description as summary and no keywords, and is scored with the declared
\* severity
C12_FallbackValues ==
    [][\A data \in FallbackData, emb \in FallbackEmbeddings :
          create_complaint("u1", data, Raises, emb, "none") =>
             LET row == complaints'[Len(complaints')]
                 weight == CASE data.severity = "Low" -> 100
                             [] data.severity = "Medium" -> 500
                             [] data.severity = "High" -> 1000
                 found == IF row.duplicate_of = None THEN 0
                          ELSE Cardinality(DuplicatesOf(row.duplicate_of))
             IN  /\ Len(complaints') = Len(complaints) + 1
                 /\ row.category = data.category
                 /\ row.severity = data.severity
                 /\ Len(row.ai_summary) <= 200
                 /\ \A i \in 1 .. 200 :
                       i <= Len(data.description) =>
                          /\ i <= Len(row.ai_summary)
                          /\ row.ai_summary[i] = data.description[i]
                 /\ row.keywords = <<>>
                 /\ row.priority_score = weight + 150 * found]_vars

\* a Low complaint was stored with a summary cut to 200 characters, as a
\* duplicate of an earlier one
C12_Witness ==
    /\ Completed("submit", 201)
    /\ LET row == complaints[response.id]
       IN  /\ row.severity = "Low"
           /\ Len(row.ai_summary) = 200
           /\ row.is_duplicate
           /\ row.priority_score = 100

LogsOf(c) == SelectSeq(resolution_logs, LAMBDA l : l.complaint_id = c)

\* C14: every resolve of an existing complaint, resolved already or not,
\* leaves its status resolved and appends exactly one log entry holding the
\* complaint id, the admin id and the note
C14_ResolveLogsOnce ==
    [][\A c \in DOMAIN complaints :
          resolve_complaint(c, Admin, Note) =>
             /\ complaints'[c].status = "resolved"
             /\ Len(resolution_logs') = Len(resolution_logs) + 1
             /\ SubSeq(resolution_logs', 1, Len(resolution_logs)) = resolution_logs
             /\ LET entry == resolution_logs'[Len(resolution_logs')]
                IN  /\ entry.complaint_id = c
                    /\ entry.resolved_by = Admin
                    /\ entry.resolution_note = Note]_vars

\* a complaint was resolved a second time and has two log entries
C14_Witness ==
    /\ Completed("resolve", 200)
    /\ complaints[response.id].status = "resolved"
    /\ Len(LogsOf(response.id)) = 2

\* C15: a successful vote adds exactly one vote row, that of the voter on
\* the complaint, returns the number of vote rows the complaint then has
\* (one more than before), and leaves the complaint's score recomputed
\* unless the refresh failed
C15_VoteCounts ==
    [][\A c \in Ids, u \in Users, f \in VoteFaults :
          ( /\ vote_on_complaint(c, u, f)
            /\ response'.status = 200 )
          => LET row == [complaint_id |-> c, user_id |-> u]
             IN  /\ BagCardinality(votes') = BagCardinality(votes) + 1
                 /\ CopiesIn(row, votes') = CopiesIn(row, votes) + 1
                 /\ response'.vote_count = VotesOf(c)'
                 /\ response'.vote_count = VotesOf(c) + 1
                 /\ f = "none" => StoredIsRecomputed(c)']_vars

\* the second voter of a complaint was told 2
C15_Witness ==
    /\ Completed("vote", 200)
    /\ response.vote_count = 2
    /\ VotesOf(response.id) = 2

\* the corpus with the rows find_duplicate cannot use removed
UsableRows(corpus) ==
    SelectSeq(corpus, LAMBDA v : /\ decode_embedding(v.embedding).ok
                                 /\ decode_embedding(v.embedding).val # <<>>)

\* C16: find_duplicate returns, and what it returns is what it returns for
\* the corpus without the entries whose vector is missing, empty or
\* unparseable
C16_BadEntriesSkipped ==
    DupReturned =>
        response.result = find_duplicate(response.new_embedding,
                                         UsableRows(response.stored_vectors))

\* a match was returned from a corpus whose last row is unparseable and
\* whose first row is empty
C16_Witness ==
    /\ DupReturned
    /\ response.result.complaint_id = 2
    /\ Len(response.stored_vectors) = 3
    /\ response.stored_vectors[1].embedding = Null
    /\ response.stored_vectors[3].embedding = Malformed

\* the vote row of worker p's call is in the table by p's own insert
Inserted(p) ==
    /\ calls[p].op = "vote"
    /\ \/ calls[p].pc \in {"refresh_row", "refresh_votes", "refresh_dups",
                           "refresh_write", "count"}
       \/ calls[p].pc = "done" /\ calls[p].status = 200

SamePair(p, q) ==
    /\ calls[p].op = "vote" /\ calls[q].op = "vote"
    /\ calls[p].target = calls[q].target
    /\ calls[p].user = calls[q].user

\* C17: however two votes of one user on one complaint interleave, the
\* votes table holds at most one row for the pair, and at most one of the
\* two inserts took effect
C17_RacingVotesOneRow ==
    /\ \A r \in BagToSet(votes) : CopiesIn(r, votes) <= 1
    /\ \A p, q \in Procs :
          (p # q /\ SamePair(p, q) /\ Inserted(p)) => ~Inserted(q)

\* both workers passed the already-voted check; one inserted, the store
\* refused the other
C17_Witness ==
    \E p, q \in Procs :
        /\ SamePair(p, q)
        /\ Inserted(p)
        /\ calls[q].pc = "done" /\ calls[q].status = 500
        /\ VotesOf(calls[p].target) = 1

\* C18: whatever the workers did before, a refresh of a complaint that runs
\* alone leaves its stored score equal to the formula on its severity, its
\* vote rows, the complaints referencing it, its creation time and status
C18_RefreshConverges ==
    [][\A c \in DOMAIN complaints :
          RefreshAlone(c) => StoredIsRecomputed(c)']_vars

\* two requests completed at time 0 and left a score that a refresh running
\* alone then changed
C18_Witness ==
    /\ Completed("refresh", 200)
    /\ clock = 0
    /\ \A p \in Procs : calls[p].pc = "done" /\ calls[p].status \in {200, 201}
    /\ response.was # complaints[response.id].priority_score
    /\ StoredIsRecomputed(response.id)

\* C19: every embedding record belongs to a persisted complaint, also after
\* a submission was cut short or its insert failed
C19_NoOrphanEmbedding ==
    \A i \in DOMAIN complaint_vectors :
        complaint_vectors[i].complaint_id \in DOMAIN complaints

\* one submission was cut short after its complaint row was written and
\* before its embedding record was, the insert of another failed
C19_Witness ==
    \E p, q \in Procs :
        /\ calls[p].op = "submit" /\ calls[p].pc = "done" /\ calls[p].status = 0
        /\ calls[p].id \in DOMAIN complaints
        /\ complaints[calls[p].id].is_duplicate
        /\ OwnVectors(calls[p].id) = <<>>
        /\ calls[q].op = "submit" /\ calls[q].pc = "done" /\ calls[q].status = 500

\* C20: a run of _refresh_priority(c) that completes leaves c's stored score
\* equal to compute_priority_score of the severity, creation time and
\* status c had, the number of its vote rows, and the number of complaints
\* whose duplicate_of is c itself; every other field and row is as it was
C20_RefreshRecomputes ==
    [][\A c \in DOMAIN complaints :
          RefreshAlone(c) =>
              complaints' =
                  [complaints EXCEPT ![c].priority_score =
                      compute_priority_score(
                          complaints[c].severity,
                          VotesOf(c),
                          Cardinality({i \in DOMAIN complaints :
                                          complaints[i].duplicate_of = c}),
                          complaints[c].created_at, complaints[c].status,
                          clock)]]_vars

\* a resolved complaint with a vote, a duplicate and a duplicate of that
\* duplicate was refreshed to a score other than the one it had, counting
\* one duplicate
C20_Witness ==
    /\ Completed("refresh", 200)
    /\ \E i, j \in DOMAIN complaints :
          /\ complaints[i].duplicate_of = response.id
          /\ complaints[j].duplicate_of = i
    /\ Cardinality(DuplicatesOf(response.id)) = 1
    /\ VotesOf(response.id) = 1
    /\ complaints[response.id].status = "resolved"
    /\ response.was # complaints[response.id].priority_score
    /\ complaints[response.id].priority_score =
           severity_weight(complaints[response.id].severity)
           + VOTE_MULTIPLIER + DUPLICATE_MULTIPLIER


\* C21: a vote or a duplicate submission whose refresh fails still completes:
\* the vote row is stored and its count returned, the new complaint is stored
\* and returned, and the complaint that was to be refreshed keeps its score
C21_RefreshFailureSwallowed ==
    [][/\ \A c \in DOMAIN complaints :
            (/\ existing_votes(votes, c, "u2") = 0
             /\ vote_on_complaint(c, "u2", "refresh"))
            => /\ Completed("vote", 200)'
               /\ existing_votes(votes, c, "u2")' = 1
               /\ response'.vote_count = VotesOf(c)'
               /\ complaints'[c].priority_score = complaints[c].priority_score
       /\ \A s \in ChainSubmissions :
            LET row == complaint_row("u1", s.data, s.ai, s.emb, complaints,
                                     complaint_vectors, clock)
            IN  (/\ row.duplicate_of # None
                 /\ create_complaint("u1", s.data, s.ai, s.emb, "refresh"))
                => /\ Completed("submit", 201)'
                   /\ response'.id = Len(complaints) + 1
                   /\ complaints' = Append(complaints, row)]_vars

\* a duplicate was submitted and a vote cast on its parent, the refresh
\* failed both times, and the parent still has the score it was given
C21_Witness ==
    /\ Completed("vote", 200)
    /\ response.failed = "refresh"
    /\ VotesOf(response.id) = 1
    /\ Cardinality(DuplicatesOf(response.id)) = 1
    /\ complaints[response.id].priority_score =
           severity_weight(complaints[response.id].severity)

\* C22: a successful vote on an unresolved complaint whose refresh succeeds
\* never lowers that complaint's stored score, whichever complaint it is,
\* one flagged as a duplicate at submission included
C22_VoteNeverLowers ==
    [][\A c \in DOMAIN complaints, u \in Users :
          (/\ complaints[c].status # "resolved"
           /\ existing_votes(votes, c, u) = 0
           /\ vote_on_complaint(c, u, "none"))
          => complaints'[c].priority_score >= complaints[c].priority_score]_vars


\* C23: a submission whose complaint insert fails ends in a server error and
\* leaves the store as it was: no complaint row, no embedding record, no
\* parent's score changed
C23_InsertFailureIsFatal ==
    [][\A s \in ChainSubmissions :
          create_complaint("u1", s.data, s.ai, s.emb, "insert")
          => /\ Completed("submit", 500)'
             /\ UNCHANGED <<complaints, complaint_vectors, votes,
                            resolution_logs>>]_vars

\* the insert failed for a submission that had an embedding and a stored
\* complaint close enough to be its parent, and that complaint is still
\* without duplicates
C23_Witness ==
    /\ Completed("submit", 500)
    /\ response.failed = "insert"
    /\ Len(complaints) = 1
    /\ OwnVectors(1) # <<>>
    /\ StoredIsRecomputed(1)
    /\ \A s \in ChainSubmissions :
          complaint_row("u1", s.data, s.ai, s.emb, complaints,
                        complaint_vectors, clock).duplicate_of = 1


\* C24: resolving a complaint changes its status and the resolution log and
\* nothing else: every stored score, the resolved complaint's included, every
\* vote and every embedding record is as before
C24_ResolveFrame ==
    [][\A c \in DOMAIN complaints :
          resolve_complaint(c, Admin, Note)
          => /\ \A i \in DOMAIN complaints :
                   complaints'[i] = IF i = c
                                    THEN [complaints[i] EXCEPT !.status = "resolved"]
                                    ELSE complaints[i]
             /\ DOMAIN complaints' = DOMAIN complaints
             /\ UNCHANGED <<votes, complaint_vectors>>]_vars

\* a voted complaint was resolved after it had aged, and its stored score
\* still holds the decay the formula no longer gives it
C24_Witness ==
    /\ Completed("resolve", 200)
    /\ complaints[response.id].status = "resolved"
    /\ VotesOf(response.id) = 1
    /\ complaints[response.id].priority_score
          > Recomputed(response.id, Cardinality(DuplicatesOf(response.id)))


\* C25: every duplicate_of that is set names a complaint stored before the
\* complaint that carries it, so no complaint is its own parent and the
\* parent references never close a cycle
C25_ParentStoredBefore ==
    \A i \in DOMAIN complaints :
        complaints[i].duplicate_of # None
        => complaints[i].duplicate_of \in 1 .. (i - 1)

\* two workers stored a duplicate each: the second duplicate's parent is
\* the first, whose parent is the complaint stored at the start
C25_Witness ==
    /\ \A p \in Procs : calls[p].op = "submit" /\ calls[p].pc = "done"
                         /\ calls[p].status = 201
    /\ Len(complaints) = 3
    /\ complaints[2].duplicate_of = 1
    /\ complaints[3].duplicate_of = 2


\* C26: a stored complaint is flagged as a duplicate exactly when its parent
\* reference is set, and no vote, resolution or refresh changes either
C26_FlagMatchesParent ==
    /\ [](\A i \in DOMAIN complaints :
            complaints[i].is_duplicate <=> complaints[i].duplicate_of # None)
    /\ [][\A i \in DOMAIN complaints :
            /\ complaints'[i].is_duplicate = complaints[i].is_duplicate
            /\ complaints'[i].duplicate_of = complaints[i].duplicate_of]_vars

\* a flagged duplicate was voted on, resolved and then refreshed to another
\* score, next to a complaint that is not flagged
C26_Witness ==
    /\ Completed("refresh", 200)
    /\ complaints[response.id].is_duplicate
    /\ complaints[response.id].status = "resolved"
    /\ VotesOf(response.id) = 1
    /\ response.was # complaints[response.id].priority_score
    /\ \E i \in DOMAIN complaints : complaints[i].duplicate_of = None


\* the complaints table after _refresh_priority(c) ran on table cs now
Refreshed(cs, c) == refresh_priority(cs, votes, c, clock, FALSE)

\* C27: with the time, the votes, the duplicates and the statuses held
\* fixed, a refresh of c writes nothing but c's score, a second refresh of c
\* changes nothing more, and refreshes of c and of another complaint give
\* the same table in either order
C27_RefreshIdempotentLocal ==
    [][\A c \in DOMAIN complaints :
          RefreshAlone(c)
          => /\ \A i \in DOMAIN complaints \ {c} : complaints'[i] = complaints[i]
             /\ \E score \in {complaints'[c].priority_score} :
                   complaints'[c] = [complaints[c] EXCEPT !.priority_score = score]
             /\ UNCHANGED <<votes, complaint_vectors, resolution_logs>>
             /\ Refreshed(complaints', c) = complaints'
             /\ \A d \in DOMAIN complaints :
                   Refreshed(complaints', d) = Refreshed(Refreshed(complaints, d), c)]_vars

\* a refresh changed the score of a complaint while the stored score of
\* its duplicate was out of date as well
C27_Witness ==
    /\ Completed("refresh", 200)
    /\ response.was # complaints[response.id].priority_score
    /\ \E d \in DuplicatesOf(response.id) : ~StoredIsRecomputed(d)


\* C28: a submission whose embedding insert fails after the complaint row
\* was saved still returns the saved complaint, the complaint stays stored,
\* and a flagged duplicate's parent is still refreshed
C28_EmbeddingFailureNotFatal ==
    [][\A s \in ChainSubmissions :
          \A row \in {complaint_row("u1", s.data, s.ai, s.emb, complaints,
                                    complaint_vectors, clock)},
             id \in {Len(complaints) + 1} :
              create_complaint("u1", s.data, s.ai, s.emb, "vector_insert")
              => /\ Completed("submit", 201)'
                 /\ response'.id = id
                 /\ Len(complaints') = id
                 /\ \A f \in {"user_id", "severity", "is_duplicate", "duplicate_of"} :
                       complaints'[id][f] = row[f]
                 /\ complaint_vectors' = complaint_vectors
                 /\ row.duplicate_of # None
                       => StoredIsRecomputed(row.duplicate_of)']_vars

\* the embedding of a flagged duplicate could not be stored; the duplicate
\* is stored without an embedding record and its parent's score counts it
C28_Witness ==
    /\ Completed("submit", 201)
    /\ response.failed = "vector_insert"
    /\ complaints[response.id].is_duplicate
    /\ OwnVectors(response.id) = <<>>
    /\ LET parent == complaints[response.id].duplicate_of
       IN  /\ response.id \in DuplicatesOf(parent)
           /\ complaints[parent].priority_score
                 >= severity_weight(complaints[parent].severity)
                    + DUPLICATE_MULTIPLIER


\* C29: a rejected check adds no timestamp to the user's log and leaves the
\* other users' logs alone; a user whose log is full is rejected while the
\* oldest retained timestamp is less than a window old and admitted once it
\* is a window old, whatever was rejected in between
C29_RejectionsLeaveNoTrace ==
    [][\A u \in Users, f \in {"none", "insert"} :
          submit_complaint(u, Declared, Raises, Unavailable, f)
          => /\ \A v \in Users \ {u} : submission_log'[v] = submission_log[v]
             /\ response'.status = 429
                  => /\ \A t \in 0 .. clock :
                          Cardinality({i \in DOMAIN submission_log'[u] :
                                          submission_log'[u][i] = t})
                          <= Cardinality({i \in DOMAIN submission_log[u] :
                                             submission_log[u][i] = t})
                     /\ Len(submission_log'[u]) = rate_limit_complaints
             /\ Len(submission_log[u]) = rate_limit_complaints
                  => (response'.status = 429
                      <=> clock - submission_log[u][1] < WindowTicks)]_vars

\* a user who had used up the cap at one instant was admitted again exactly
\* one window later, and the log holds that submission alone
C29_Witness ==
    /\ response.op = "submit" /\ response.status # 429
    /\ \E u \in Users :
          /\ Len(admitted[u]) = rate_limit_complaints + 1
          /\ admitted[u][rate_limit_complaints] = clock - WindowTicks
          /\ submission_log[u] = <<clock>>


\* C30: when several usable corpus entries attain the maximum similarity and
\* it is above the threshold, find_duplicate returns the first of them in
\* corpus order: every usable entry before the one returned scores strictly
\* less, and no usable entry scores more
C30_FirstOfEqualsWins ==
    (DupReturned /\ response.result.complaint_id # None) =>
        LET e == response.new_embedding
            corpus == response.stored_vectors
            result == response.result
            first == CHOOSE i \in DOMAIN corpus :
                         corpus[i].complaint_id = result.complaint_id
        IN  \A j \in Usable(corpus) :
                /\ ~ScoreGt(SimilarityTo(e, corpus[j]), result.similarity)
                /\ j < first => ScoreGt(result.similarity, SimilarityTo(e, corpus[j]))

\* the entry returned is followed by another with the same similarity, and
\* preceded by one with less
C30_Witness ==
    /\ DupReturned
    /\ response.result.complaint_id # None
    /\ \E i, j \in Usable(response.stored_vectors) :
          /\ i < response.result.complaint_id
          /\ response.result.complaint_id < j
          /\ SimilarityTo(response.new_embedding, response.stored_vectors[j])
                = response.result.similarity
          /\ response.stored_vectors[j].embedding
                # response.stored_vectors[response.result.complaint_id].embedding

====
